---- MODULE Spec2Model ----
(***************************************************************************)
(* Model of the LLM benchmarking utilities of SENG533Project:              *)
(*   tester.py   - the Collector (dispatcher thread + sampler threads)     *)
(*   analyzer.py - the Analyzer (load, group, statistics, report)          *)
(*   formatted_reply.py - the response normalizer                          *)
(* The two utilities are run independently; `prog` says which was started. *)
(* Numbers are exact rationals <<num, den>> in lowest terms (den > 0).     *)
(* A Python dict is a sequence of <<key, value>> pairs with distinct keys, *)
(* in insertion order.                                                     *)
(***************************************************************************)
EXTENDS Integers, Sequences, FiniteSets, TLC

VARIABLES
    prog,               \* which utility runs: "tester" or "analyzer"
    \* ---- tester.py: main (the dispatcher thread)
    mainPc,             \* position of the dispatcher in main()
    error,              \* the exception that ended main(), "none" if none
    models, queries,    \* the lists returned by read_jsons (after truncation)
    test_iterations,    \* args.test_iterations
    total_queries, completed_queries,
    results,            \* the RunResult dict built in memory
    iteration, model_idx, query_number,   \* the three loop positions
    model_results,      \* records of the current (iteration, model)
    response,           \* reply of the last endpoint call
    progress,           \* percentage last printed by progress_message
    \* ---- tester.py: the sampler threads and the objects they share
    threads,            \* thread id -> [pc, stop, samples]
    monitor_thread,     \* id of the thread/Event/list the dispatcher holds
    \* ---- environment of tester.py
    calls,              \* requests received by the endpoint, in order
    outfile,            \* content of ./Results/performance_results_XX.json
    writes,             \* number of times the result file was written
    \* ---- analyzer.py: main
    aPc,                \* position of the analyzer in main()
    json_files,         \* contents of the files found by glob, in order
    file_idx,           \* position of the for loop over json_files
    a_results,          \* load_results(file_path) of the current file
    grouped,            \* group_by_model(results) of the current file
    reports             \* console output: one entry per file visited

vars == <<prog, mainPc, error, models, queries, test_iterations, total_queries,
          completed_queries, results, iteration, model_idx, query_number,
          model_results, response, progress, threads, monitor_thread, calls,
          outfile, writes, aPc, json_files, file_idx, a_results, grouped,
          reports>>

testerVars == <<mainPc, error, models, queries, test_iterations, total_queries,
                completed_queries, results, iteration, model_idx, query_number,
                model_results, response, progress, threads, monitor_thread,
                calls, outfile, writes>>

analyzerVars == <<aPc, json_files, file_idx, a_results, grouped, reports>>

-----------------------------------------------------------------------------
(* Bounds of the model *)

MaxIter == 2        \* --test-iterations ranges over -1..MaxIter
MaxSamples == 2     \* samples a sampler takes while the dispatcher runs
MaxFiles == 2       \* result files found by the analyzer's glob

-----------------------------------------------------------------------------
(* Exact rational arithmetic *)

RECURSIVE GCD(_, _)
GCD(a, b) == IF b = 0 THEN a ELSE GCD(b, a % b)

Abs(n) == IF n < 0 THEN -n ELSE n

\* n / d for d > 0, in lowest terms (a, b, g are bound to the values, so
\* that each is computed once)
Frac(n, d) ==
    CHOOSE f \in { <<a \div g, b \div g>> :
                     a \in {n}, b \in {d}, g \in {GCD(Abs(n), d)} } : TRUE

F(n) == <<n, 1>>

FAdd(x, y) ==
    CHOOSE f \in { Frac(a[1] * b[2] + b[1] * a[2], a[2] * b[2]) :
                     a \in {x}, b \in {y} } : TRUE

FDivInt(x, k) ==
    CHOOSE f \in { Frac(a[1], a[2] * k) : a \in {x} } : TRUE

FLe(x, y) == x[1] * y[2] <= y[1] * x[2]

RECURSIVE FSum(_)
FSum(s) == IF s = <<>> THEN F(0) ELSE FAdd(Head(s), FSum(Tail(s)))

-----------------------------------------------------------------------------
(* Python dict: insertion-ordered <<key, value>> pairs *)

EmptyDict == <<>>

DictHas(d, k) == \E i \in 1..Len(d) : d[i][1] = k

DictGet(d, k) == d[CHOOSE i \in 1..Len(d) : d[i][1] = k][2]

\* d[k] = v : replaces the value in place, or appends a new key
DictSet(d, k, v) ==
    IF DictHas(d, k)
    THEN [i \in 1..Len(d) |-> IF d[i][1] = k THEN <<k, v>> ELSE d[i]]
    ELSE Append(d, <<k, v>>)

\* str(n) for n >= 0
Digit(n) == CASE n = 0 -> "0" [] n = 1 -> "1" [] n = 2 -> "2" [] n = 3 -> "3"
              [] n = 4 -> "4" [] n = 5 -> "5" [] n = 6 -> "6" [] n = 7 -> "7"
              [] n = 8 -> "8" [] n = 9 -> "9"

RECURSIVE Str(_)
Str(n) == IF n < 10 THEN Digit(n) ELSE Str(n \div 10) \o Digit(n % 10)

-----------------------------------------------------------------------------
(* Inputs of the Collector *)

\* what json.load gives for models.json / queries.json; ok = FALSE: the
\* file is missing or malformed; has = FALSE: the key is not in the file
ModelsJson ==
    { [ok |-> FALSE, has |-> FALSE, list |-> <<>>],
      [ok |-> TRUE,  has |-> FALSE, list |-> <<>>],
      [ok |-> TRUE,  has |-> TRUE,  list |-> <<>>],
      [ok |-> TRUE,  has |-> TRUE,  list |-> <<"m1">>],
      [ok |-> TRUE,  has |-> TRUE,  list |-> <<"m1", "m2">>],
      [ok |-> TRUE,  has |-> TRUE,  list |-> <<"m1", "m1">>] }

QueriesJson ==
    { [ok |-> FALSE, has |-> FALSE, list |-> <<>>],
      [ok |-> TRUE,  has |-> TRUE,  list |-> <<>>],
      [ok |-> TRUE,  has |-> TRUE,  list |-> <<"hello">>],
      [ok |-> TRUE,  has |-> TRUE,  list |-> <<"hello", "bye">>] }

IterationArgs == (-1)..MaxIter

MaxQueriesArgs == {-1, 1}

\* what psutil / GPUtil report at one sampling instant; gpus are the loads
\* (g.load * 100) of the GPUs, <<>> when there is none or no GPUtil
Readings == { [cpu |-> F(40), mem |-> F(50), gpus |-> <<F(20), F(70)>>] }

\* the reply of client.generate: a stub endpoint, one reply per model
Reply(model, query) ==
    IF model = "m1"
    THEN [done |-> TRUE, done_reason |-> "stop", total_duration |-> 2000000000,
          prompt_eval_duration |-> 500000000, load_duration |-> 100000000,
          response |-> "ok"]
    ELSE [done |-> FALSE, done_reason |-> "length", total_duration |-> 1500000000,
          prompt_eval_duration |-> 250000000, load_duration |-> 0,
          response |-> "trunc"]

NoResponse == [done |-> FALSE, done_reason |-> "unknown", total_duration |-> 0,
               prompt_eval_duration |-> 0, load_duration |-> 0,
               response |-> "NO RESPONSE"]

-----------------------------------------------------------------------------
(* tester.py: pure helpers *)

\* read_jsons: (None, None) is [none |-> TRUE]
read_jsons(mf, qf) ==
    IF ~mf.ok \/ ~qf.ok
    THEN [none |-> TRUE, models |-> <<>>, queries |-> <<>>]
    ELSE [none |-> FALSE,
          models  |-> IF mf.has THEN mf.list ELSE <<>>,
          queries |-> IF qf.has THEN qf.list ELSE <<>>]

\* queries[:max_queries] when max_queries # -1 and max_queries < len(queries)
Truncate(qs, max_queries) ==
    IF max_queries # -1 /\ max_queries < Len(qs)
    THEN SubSeq(qs, 1, max_queries)
    ELSE qs

\* progress_message: the division by total_queries raises ZeroDivisionError
\* when total_queries = 0; otherwise int((completed / total) * 100) is printed
progress_message(completed, total) ==
    IF total = 0
    THEN [raised |-> TRUE, percent |-> 0]
    ELSE [raised |-> FALSE,
          percent |-> IF completed = total THEN 100
                      ELSE (completed * 100) \div total]

\* one sample of measure_utilization from a reading
Sample(r) ==
    [cpu |-> r.cpu, mem |-> r.mem,
     gpu |-> IF r.gpus = <<>> THEN F(0)
             ELSE FDivInt(FSum(r.gpus), Len(r.gpus))]

Cpus(samples) == [i \in 1..Len(samples) |-> samples[i].cpu]
Mems(samples) == [i \in 1..Len(samples) |-> samples[i].mem]
Gpus(samples) == [i \in 1..Len(samples) |-> samples[i].gpu]

\* the averages computed after the join (0 for an empty list)
Averages(samples) ==
    IF samples # <<>>
    THEN [cpu |-> FDivInt(FSum(Cpus(samples)), Len(samples)),
          mem |-> FDivInt(FSum(Mems(samples)), Len(samples)),
          gpu |-> FDivInt(FSum(Gpus(samples)), Len(samples))]
    ELSE [cpu |-> F(0), mem |-> F(0), gpu |-> F(0)]

\* FormattedReply.decompose_ollama_reply
decompose_ollama_reply(reply) ==
    [done |-> reply.done,
     done_reason |-> reply.done_reason,
     duration |-> Frac(reply.total_duration, 1000000000),
     eval_duration |-> Frac(reply.prompt_eval_duration, 1000000000),
     response |-> reply.response,
     load_duration |-> F(reply.load_duration)]

\* the record appended to model_results
QueryRecord(query, reply, avg) ==
    LET formatted_reply == decompose_ollama_reply(reply)
    IN  [query |-> query,
         response |-> formatted_reply.response,
         done |-> formatted_reply.done,
         done_reason |-> formatted_reply.done_reason,
         duration |-> formatted_reply.duration,
         eval_duration |-> formatted_reply.eval_duration,
         load_duration |-> formatted_reply.load_duration,
         avg_cpu |-> avg.cpu, avg_mem |-> avg.mem, avg_gpu |-> avg.gpu]

\* json.dump({"results": results}, outfile): the file holds one JSON object
json_dump(res) == [kind |-> "object", pairs |-> <<<<"results", res>>>>]

\* no result file on disk
NoFile == [kind |-> "missing", pairs |-> <<>>]

-----------------------------------------------------------------------------
(* tester.py: threads *)

Alive(th) == {t \in DOMAIN th : th[t].pc # "done"}

\* threading.Thread(target=measure_utilization, args=(stop_event, samples))
\* .start() with a fresh Event and a fresh list; the objects of finished
\* threads are no longer referenced and are dropped
StartThread(th) ==
    LET keep == Alive(th)
        id == CHOOSE i \in 1..(Cardinality(keep) + 1) : i \notin keep
    IN  [new |-> id,
         threads |-> [t \in keep \cup {id} |->
                        IF t = id
                        THEN [pc |-> "check", stop |-> FALSE, samples |-> <<>>]
                        ELSE th[t]]]

\* a join that returns without waiting for the thread
JoinedNoWait(th, t) == t \in DOMAIN th

\* thread.join() returns once the thread has terminated
Joined(th, t) == th[t].pc = "done"

\* the dispatcher thread has left main() by an exception
MainDead == mainPc = "raised"


-----------------------------------------------------------------------------
(* tester.py: measure_utilization, run by thread t *)

\* samples.append(...); the model keeps the first MaxSamples samples of a
\* list that nobody will read (its dispatcher is dead)
AppendSample(samples, x) ==
    IF Len(samples) < MaxSamples THEN Append(samples, x) ELSE samples

\* the signal is tested at the bottom of the loop: the first interval is
\* sampled without looking at it
SamplerCheckAtBottom(t) ==
    /\ prog = "tester"
    /\ t \in DOMAIN threads
    /\ threads[t].pc = "check"
    /\ IF threads[t].stop /\ threads[t].samples # <<>>
       THEN threads' = [threads EXCEPT ![t].pc = "done"]
       ELSE /\ Len(threads[t].samples) < MaxSamples \/ MainDead
            /\ threads' = [threads EXCEPT ![t].pc = "measure"]
    /\ UNCHANGED <<prog, mainPc, error, models, queries, test_iterations,
                   total_queries, completed_queries, results, iteration,
                   model_idx, query_number, model_results, response, progress,
                   monitor_thread, calls, outfile, writes>>
    /\ UNCHANGED analyzerVars

\* while not stop_event.is_set(): the test at the top of the loop
SamplerCheck(t) ==
    /\ prog = "tester"
    /\ t \in DOMAIN threads
    /\ threads[t].pc = "check"
    /\ IF threads[t].stop
       THEN threads' = [threads EXCEPT ![t].pc = "done"]
       ELSE /\ Len(threads[t].samples) < MaxSamples \/ MainDead
            /\ threads' = [threads EXCEPT ![t].pc = "measure"]
    /\ UNCHANGED <<prog, mainPc, error, models, queries, test_iterations,
                   total_queries, completed_queries, results, iteration,
                   model_idx, query_number, model_results, response, progress,
                   monitor_thread, calls, outfile, writes>>
    /\ UNCHANGED analyzerVars

\* the loop body: cpu_percent(interval) blocks for one interval, then the
\* sample is appended
SamplerSample(t) ==
    /\ prog = "tester"
    /\ t \in DOMAIN threads
    /\ threads[t].pc = "measure"
    /\ \E r \in Readings :
         threads' = [threads EXCEPT
                       ![t].samples = AppendSample(@, Sample(r)),
                       ![t].pc = "check"]
    /\ UNCHANGED <<prog, mainPc, error, models, queries, test_iterations,
                   total_queries, completed_queries, results, iteration,
                   model_idx, query_number, model_results, response, progress,
                   monitor_thread, calls, outfile, writes>>
    /\ UNCHANGED analyzerVars

-----------------------------------------------------------------------------
(* tester.py: main and measure_baseline_utilization, the dispatcher thread *)

\* read_jsons, the early return, the truncation and the counters
ReadJsons ==
    /\ prog = "tester"
    /\ mainPc = "read_jsons"
    /\ \E mf \in ModelsJson, qf \in QueriesJson,
          n \in IterationArgs, max_queries \in MaxQueriesArgs :
         LET cfg == read_jsons(mf, qf)
             qs == Truncate(cfg.queries, max_queries)
         IN  IF cfg.none
             THEN /\ mainPc' = "returned"
                  /\ UNCHANGED <<models, queries, test_iterations,
                                 total_queries>>
             ELSE /\ mainPc' = "baseline_start"
                  /\ models' = cfg.models
                  /\ queries' = qs
                  /\ test_iterations' = n
                  /\ total_queries' = Len(cfg.models) * Len(qs) * n
    /\ UNCHANGED <<prog, error, completed_queries, results, iteration,
                   model_idx, query_number, model_results, response, progress,
                   threads, monitor_thread, calls, outfile, writes>>
    /\ UNCHANGED analyzerVars

\* measure_baseline_utilization: the sampler is started
BaselineStart ==
    /\ prog = "tester"
    /\ mainPc = "baseline_start"
    /\ LET st == StartThread(threads)
       IN  /\ threads' = st.threads
           /\ monitor_thread' = st.new
    /\ mainPc' = "baseline_sleep"
    /\ UNCHANGED <<prog, error, models, queries, test_iterations,
                   total_queries, completed_queries, results, iteration,
                   model_idx, query_number, model_results, response, progress,
                   calls, outfile, writes>>
    /\ UNCHANGED analyzerVars

\* time.sleep(duration) is over; stop_event.set()
BaselineStop ==
    /\ prog = "tester"
    /\ mainPc = "baseline_sleep"
    /\ threads' = [threads EXCEPT ![monitor_thread].stop = TRUE]
    /\ mainPc' = "baseline_join"
    /\ UNCHANGED <<prog, error, models, queries, test_iterations,
                   total_queries, completed_queries, results, iteration,
                   model_idx, query_number, model_results, response, progress,
                   monitor_thread, calls, outfile, writes>>
    /\ UNCHANGED analyzerVars

\* the baseline sampler is signalled but never joined
BaselineJoinSkipped ==
    /\ prog = "tester"
    /\ mainPc = "baseline_join"
    /\ mainPc' = "iteration_loop"
    /\ results' = DictSet(results, "baseline",
                          Averages(threads[monitor_thread].samples))
    /\ iteration' = 1
    /\ UNCHANGED <<prog, error, models, queries, test_iterations,
                   total_queries, completed_queries, model_idx, query_number,
                   model_results, response, progress, threads, monitor_thread,
                   calls, outfile, writes>>
    /\ UNCHANGED analyzerVars

\* baseline_thread.join()
BaselineJoin ==
    /\ prog = "tester"
    /\ mainPc = "baseline_join"
    /\ Joined(threads, monitor_thread)
    /\ mainPc' = "baseline_avg"
    /\ UNCHANGED <<prog, error, models, queries, test_iterations,
                   total_queries, completed_queries, results, iteration,
                   model_idx, query_number, model_results, response, progress,
                   threads, monitor_thread, calls, outfile, writes>>
    /\ UNCHANGED analyzerVars

\* the averages of the baseline samples; results["baseline"] = {...}
BaselineAverage ==
    /\ prog = "tester"
    /\ mainPc = "baseline_avg"
    /\ results' = DictSet(results, "baseline",
                          Averages(threads[monitor_thread].samples))
    /\ iteration' = 1
    /\ mainPc' = "iteration_loop"
    /\ UNCHANGED <<prog, error, models, queries, test_iterations,
                   total_queries, completed_queries, model_idx, query_number,
                   model_results, response, progress, threads, monitor_thread,
                   calls, outfile, writes>>
    /\ UNCHANGED analyzerVars

\* for iteration in range(1, args.test_iterations + 1):
\*     results[str(iteration)] = {}
IterationLoop ==
    /\ prog = "tester"
    /\ mainPc = "iteration_loop"
    /\ IF iteration <= test_iterations
       THEN /\ results' = DictSet(results, Str(iteration), EmptyDict)
            /\ model_idx' = 1
            /\ mainPc' = "model_loop"
       ELSE /\ mainPc' = "final_progress"
            /\ UNCHANGED <<results, model_idx>>
    /\ UNCHANGED <<prog, error, models, queries, test_iterations,
                   total_queries, completed_queries, iteration, query_number,
                   model_results, response, progress, threads, monitor_thread,
                   calls, outfile, writes>>
    /\ UNCHANGED analyzerVars

\* model_results is not reset for the next model
ModelLoopNoReset ==
    /\ prog = "tester"
    /\ mainPc = "model_loop"
    /\ IF model_idx <= Len(models)
       THEN /\ query_number' = 1
            /\ mainPc' = "query_loop"
            /\ UNCHANGED iteration
       ELSE /\ iteration' = iteration + 1
            /\ mainPc' = "iteration_loop"
            /\ UNCHANGED query_number
    /\ UNCHANGED <<prog, error, models, queries, test_iterations,
                   total_queries, completed_queries, results, model_idx,
                   model_results, response, progress, threads, monitor_thread,
                   calls, outfile, writes>>
    /\ UNCHANGED analyzerVars

\* for model in models: model_results = []
ModelLoop ==
    /\ prog = "tester"
    /\ mainPc = "model_loop"
    /\ IF model_idx <= Len(models)
       THEN /\ model_results' = <<>>
            /\ query_number' = 1
            /\ mainPc' = "query_loop"
            /\ UNCHANGED iteration
       ELSE /\ iteration' = iteration + 1
            /\ mainPc' = "iteration_loop"
            /\ UNCHANGED <<model_results, query_number>>
    /\ UNCHANGED <<prog, error, models, queries, test_iterations,
                   total_queries, completed_queries, results, model_idx,
                   response, progress, threads, monitor_thread, calls, outfile,
                   writes>>
    /\ UNCHANGED analyzerVars

\* for query_number, query in enumerate(queries, start=1): progress_message;
\* after the last query: results[str(iteration)][model] = model_results
QueryLoop ==
    /\ prog = "tester"
    /\ mainPc = "query_loop"
    /\ IF query_number <= Len(queries)
       THEN LET p == progress_message(completed_queries, total_queries)
            IN  /\ IF p.raised
                   THEN /\ mainPc' = "raised"
                        /\ error' = "ZeroDivisionError"
                        /\ UNCHANGED progress
                   ELSE /\ mainPc' = "start_monitor"
                        /\ progress' = p.percent
                        /\ UNCHANGED error
                /\ UNCHANGED <<results, model_idx>>
       ELSE /\ results' = DictSet(results, Str(iteration),
                                  DictSet(DictGet(results, Str(iteration)),
                                          models[model_idx], model_results))
            /\ model_idx' = model_idx + 1
            /\ mainPc' = "model_loop"
            /\ UNCHANGED <<error, progress>>
    /\ UNCHANGED <<prog, models, queries, test_iterations, total_queries,
                   completed_queries, iteration, query_number, model_results,
                   response, threads, monitor_thread, calls, outfile, writes>>
    /\ UNCHANGED analyzerVars

\* samples = []; stop_event = Event(); monitor_thread = Thread(...).start()
StartMonitor ==
    /\ prog = "tester"
    /\ mainPc = "start_monitor"
    /\ LET st == StartThread(threads)
       IN  /\ threads' = st.threads
           /\ monitor_thread' = st.new
    /\ mainPc' = "send_query"
    /\ UNCHANGED <<prog, error, models, queries, test_iterations,
                   total_queries, completed_queries, results, iteration,
                   model_idx, query_number, model_results, response, progress,
                   calls, outfile, writes>>
    /\ UNCHANGED analyzerVars

\* send_query_to_model: client.generate(model, prompt) is issued
SendQuery ==
    /\ prog = "tester"
    /\ mainPc = "send_query"
    /\ calls' = Append(calls, [iteration |-> iteration,
                                model_idx |-> model_idx,
                                query_number |-> query_number,
                                model |-> models[model_idx],
                                prompt |-> queries[query_number]])
    /\ mainPc' = "in_call"
    /\ UNCHANGED <<prog, error, models, queries, test_iterations,
                   total_queries, completed_queries, results, iteration,
                   model_idx, query_number, model_results, response, progress,
                   threads, monitor_thread, outfile, writes>>
    /\ UNCHANGED analyzerVars

\* client.generate returns its reply
EndpointReturn ==
    /\ prog = "tester"
    /\ mainPc = "in_call"
    /\ response' = Reply(models[model_idx], queries[query_number])
    /\ mainPc' = "stop_monitor"
    /\ UNCHANGED <<prog, error, models, queries, test_iterations,
                   total_queries, completed_queries, results, iteration,
                   model_idx, query_number, model_results, progress, threads,
                   monitor_thread, calls, outfile, writes>>
    /\ UNCHANGED analyzerVars

\* client.generate raises: nothing in main catches it
EndpointRaise ==
    /\ prog = "tester"
    /\ mainPc = "in_call"
    /\ mainPc' = "raised"
    /\ error' = "endpoint"
    /\ UNCHANGED <<prog, models, queries, test_iterations, total_queries,
                   completed_queries, results, iteration, model_idx,
                   query_number, model_results, response, progress, threads,
                   monitor_thread, calls, outfile, writes>>
    /\ UNCHANGED analyzerVars

\* stop_event.set()
StopMonitor ==
    /\ prog = "tester"
    /\ mainPc = "stop_monitor"
    /\ threads' = [threads EXCEPT ![monitor_thread].stop = TRUE]
    /\ mainPc' = "join_monitor"
    /\ UNCHANGED <<prog, error, models, queries, test_iterations,
                   total_queries, completed_queries, results, iteration,
                   model_idx, query_number, model_results, response, progress,
                   monitor_thread, calls, outfile, writes>>
    /\ UNCHANGED analyzerVars

\* monitor_thread.join()
JoinMonitor ==
    /\ prog = "tester"
    /\ mainPc = "join_monitor"
    /\ Joined(threads, monitor_thread)
    /\ mainPc' = "append_record"
    /\ UNCHANGED <<prog, error, models, queries, test_iterations,
                   total_queries, completed_queries, results, iteration,
                   model_idx, query_number, model_results, response, progress,
                   threads, monitor_thread, calls, outfile, writes>>
    /\ UNCHANGED analyzerVars

\* the averages of the samples, decompose_ollama_reply, model_results.append,
\* completed_queries += 1 and the step of the query loop
AppendRecord ==
    /\ prog = "tester"
    /\ mainPc = "append_record"
    /\ model_results' =
         Append(model_results,
                QueryRecord(queries[query_number], response,
                            Averages(threads[monitor_thread].samples)))
    /\ completed_queries' = completed_queries + 1
    /\ query_number' = query_number + 1
    /\ mainPc' = "query_loop"
    /\ UNCHANGED <<prog, error, models, queries, test_iterations,
                   total_queries, results, iteration, model_idx, response,
                   progress, threads, monitor_thread, calls, outfile, writes>>
    /\ UNCHANGED analyzerVars

\* progress_message(total_queries, total_queries, ...) after the loops
FinalProgress ==
    /\ prog = "tester"
    /\ mainPc = "final_progress"
    /\ LET p == progress_message(total_queries, total_queries)
       IN  IF p.raised
           THEN /\ mainPc' = "raised"
                /\ error' = "ZeroDivisionError"
                /\ UNCHANGED progress
           ELSE /\ mainPc' = "dump"
                /\ progress' = p.percent
                /\ UNCHANGED error
    /\ UNCHANGED <<prog, models, queries, test_iterations, total_queries,
                   completed_queries, results, iteration, model_idx,
                   query_number, model_results, response, threads,
                   monitor_thread, calls, outfile, writes>>
    /\ UNCHANGED analyzerVars

\* the results are also saved after every model (incremental persistence)
DumpResultsIncremental ==
    /\ prog = "tester"
    /\ mainPc \in {"dump", "model_loop"}
    /\ writes < 2
    /\ outfile' = json_dump(results)
    /\ writes' = writes + 1
    /\ mainPc' = IF mainPc = "dump" THEN "done" ELSE mainPc
    /\ UNCHANGED <<prog, error, models, queries, test_iterations,
                   total_queries, completed_queries, results, iteration,
                   model_idx, query_number, model_results, response, progress,
                   threads, monitor_thread, calls>>
    /\ UNCHANGED analyzerVars

\* with open(output_filename, "w") as outfile: json.dump({"results": results})
DumpResults ==
    /\ prog = "tester"
    /\ mainPc = "dump"
    /\ outfile' = json_dump(results)
    /\ writes' = writes + 1
    /\ mainPc' = "done"
    /\ UNCHANGED <<prog, error, models, queries, test_iterations,
                   total_queries, completed_queries, results, iteration,
                   model_idx, query_number, model_results, response, progress,
                   threads, monitor_thread, calls>>
    /\ UNCHANGED analyzerVars

\* the analyzer is run on the result directory once the collector is done
RunAnalyzer ==
    /\ prog = "tester"
    /\ mainPc = "done"
    /\ aPc = "off"
    /\ aPc' = "glob"
    /\ UNCHANGED <<prog, testerVars>>
    /\ UNCHANGED <<json_files, file_idx, a_results, grouped, reports>>


-----------------------------------------------------------------------------
(* Inputs of the Analyzer *)

\* records found in result files: with and without done, with and without
\* metric keys
RecA == [query |-> "hello", done |-> TRUE, duration |-> F(1), avg_cpu |-> F(40)]
RecB == [query |-> "bye", done |-> FALSE, duration |-> F(3)]
RecC == [query |-> "hello", duration |-> F(2), load_duration |-> F(5)]
RecD == [query |-> "bye", done |-> FALSE]

\* the value of one iteration key: model name -> records
IterDicts ==
    { << <<"m1", <<RecA, RecB>>>>, <<"m2", <<RecC>>>> >>,
      << <<"m2", <<RecD, RecA>>>>, <<"m1", <<RecC>>>> >>,
      << <<"m1", <<>>>>, <<"m2", <<RecB, RecD>>>> >> }

BaselineSample == [cpu |-> F(5), mem |-> F(30), gpu |-> F(0)]

\* the "results" objects found in result files
RunResults ==
    {EmptyDict, << <<"baseline", BaselineSample>> >>}
    \cup { << <<"1", d>> >> : d \in IterDicts }
    \cup { << <<"baseline", BaselineSample>>, <<"1", d>>, <<"2", e>> >> :
             d \in IterDicts, e \in IterDicts }
    \cup { << <<"2", d>>, <<"baseline", BaselineSample>>, <<"1", d>> >> :
             d \in IterDicts }

\* what open + json.load meet for one discovered file
FileSamples ==
    { [kind |-> "missing", pairs |-> <<>>],      \* open raises
      [kind |-> "malformed", pairs |-> <<>>],    \* json.load raises
      [kind |-> "array", pairs |-> <<>>],        \* valid JSON, not an object
      [kind |-> "object", pairs |-> <<>>] }      \* an object without "results"
    \cup { [kind |-> "object", pairs |-> << <<"results", r>> >>] :
             r \in RunResults }

FileLists == UNION { [1..n -> FileSamples] : n \in 0..MaxFiles }

Metrics == <<"duration", "eval_duration", "load_duration",
             "avg_cpu", "avg_mem", "avg_gpu">>

-----------------------------------------------------------------------------
(* analyzer.py: pure functions *)

\* load_results without its try/except: the exception of open, json.load or
\* data.get leaves the function
load_results_no_except(file) ==
    IF file.kind = "object"
    THEN [exc |-> FALSE,
          ret |-> IF DictHas(file.pairs, "results")
                  THEN DictGet(file.pairs, "results")
                  ELSE EmptyDict]
    ELSE [exc |-> TRUE, ret |-> EmptyDict]

\* load_results: exc says whether an exception leaves the function
load_results(file) ==
    IF file.kind = "object"
    THEN [exc |-> FALSE,
          ret |-> IF DictHas(file.pairs, "results")
                  THEN DictGet(file.pairs, "results")
                  ELSE EmptyDict]
    ELSE [exc |-> FALSE, ret |-> EmptyDict]   \* except Exception: return {}

\* grouped[model] = records instead of grouped[model].extend(records)
RECURSIVE GroupOverwrite(_, _)
GroupOverwrite(g, value) ==
    IF value = <<>>
    THEN g
    ELSE GroupOverwrite(DictSet(g, Head(value)[1], Head(value)[2]), Tail(value))

\* the inner loop of group_by_model over value.items()
RECURSIVE GroupExtend(_, _)
GroupExtend(g, value) ==
    IF value = <<>>
    THEN g
    ELSE LET model == Head(value)[1]
             records == Head(value)[2]
             g0 == IF DictHas(g, model) THEN g ELSE DictSet(g, model, <<>>)
         IN  GroupExtend(DictSet(g0, model, DictGet(g0, model) \o records),
                         Tail(value))

RECURSIVE GroupFrom(_, _)
GroupFrom(g, res) ==
    IF res = <<>>
    THEN g
    ELSE IF Head(res)[1] = "baseline"
         THEN GroupFrom(g, Tail(res))
         ELSE GroupFrom(GroupExtend(g, Head(res)[2]), Tail(res))

group_by_model(res) == GroupFrom(EmptyDict, res)

\* record.get(key, default)
RecGet(record, key, default) ==
    IF key \in DOMAIN record THEN record[key] ELSE default

HasKey(record, key) == key \in DOMAIN record

\* [record.get(metric, 0) for record in records if metric in record]
RECURSIVE Values(_, _)
Values(records, metric) ==
    IF records = <<>>
    THEN <<>>
    ELSE IF HasKey(Head(records), metric)
         THEN <<RecGet(Head(records), metric, F(0))>>
              \o Values(Tail(records), metric)
         ELSE Values(Tail(records), metric)

\* record.get("done", False): a record without done counts as a failure
RECURSIVE FailuresDefaultFalse(_)
FailuresDefaultFalse(records) ==
    IF records = <<>>
    THEN 0
    ELSE (IF ~RecGet(Head(records), "done", FALSE) THEN 1 ELSE 0)
         + FailuresDefaultFalse(Tail(records))

\* sum(1 for record in records if not record.get("done", True))
RECURSIVE Failures(_)
Failures(records) ==
    IF records = <<>>
    THEN 0
    ELSE (IF ~RecGet(Head(records), "done", TRUE) THEN 1 ELSE 0)
         + Failures(Tail(records))

\* compute_stats; of the statistics of a metric the model keeps the mean and
\* the number of values (median, std and ci are reals computed from the same
\* values and the same n)
compute_stats(records, baseline) ==
    LET n == Len(records)
        failures == Failures(records)
    IN  [metrics |->
            [i \in 1..Len(Metrics) |->
                LET values == Values(records, Metrics[i])
                IN  IF values # <<>>
                    THEN [mean |-> FDivInt(FSum(values), Len(values)),
                          len |-> Len(values)]
                    ELSE [mean |-> F(0), len |-> 0]],
         failure_rate |-> IF n > 0 THEN Frac(failures * 100, n) ELSE F(0),
         count |-> n]

\* grouped_stats[model] = compute_stats(records, baseline), in grouped's order
GroupedStats(g, baseline) ==
    [i \in 1..Len(g) |-> <<g[i][1], compute_stats(g[i][2], baseline)>>]

-----------------------------------------------------------------------------
(* analyzer.py: main *)

\* the files glob.glob can find: any files when the analyzer is run on its
\* own, the file just written when it is run after the collector
Discovered ==
    IF prog = "analyzer" THEN FileLists ELSE {<<outfile>>}

\* glob.glob(...); "No matching performance result files" and return
Glob ==
    /\ aPc = "glob"
    /\ \E fs \in Discovered :
         /\ json_files' = fs
         /\ IF fs = <<>>
            THEN aPc' = "done" /\ UNCHANGED file_idx
            ELSE aPc' = "load" /\ file_idx' = 1
    /\ UNCHANGED <<a_results, grouped, reports>>
    /\ UNCHANGED <<prog, testerVars>>

\* for file_path in json_files: results = load_results(file_path);
\* if not results: print("No results found in this file."); continue
LoadFile ==
    /\ aPc = "load"
    /\ IF file_idx > Len(json_files)
       THEN /\ aPc' = "done"
            /\ UNCHANGED <<file_idx, a_results, reports>>
       ELSE LET r == load_results(json_files[file_idx])
            IN  IF r.exc
                THEN /\ aPc' = "raised"
                     /\ UNCHANGED <<file_idx, a_results, reports>>
                ELSE /\ a_results' = r.ret
                     /\ IF r.ret = EmptyDict
                        THEN /\ reports' = Append(reports,
                                     [kind |-> "no results", stats |-> <<>>])
                             /\ file_idx' = file_idx + 1
                             /\ aPc' = "load"
                        ELSE /\ aPc' = "process"
                             /\ UNCHANGED <<file_idx, reports>>
    /\ UNCHANGED <<json_files, grouped>>
    /\ UNCHANGED <<prog, testerVars>>

\* baseline, group_by_model, compute_stats per model, display_stats_transposed
ProcessFile ==
    /\ aPc = "process"
    /\ LET baseline == IF DictHas(a_results, "baseline")
                       THEN DictGet(a_results, "baseline")
                       ELSE [cpu |-> F(0), mem |-> F(0), gpu |-> F(0)]
           g == group_by_model(a_results)
       IN  /\ grouped' = g
           /\ reports' = Append(reports,
                                [kind |-> "table",
                                 stats |-> GroupedStats(g, baseline)])
    /\ file_idx' = file_idx + 1
    /\ aPc' = "load"
    /\ UNCHANGED <<json_files, a_results>>
    /\ UNCHANGED <<prog, testerVars>>

-----------------------------------------------------------------------------
(* Specification *)

Init ==
    /\ prog \in {"tester", "analyzer"}
    /\ mainPc = IF prog = "tester" THEN "read_jsons" ELSE "off"
    /\ error = "none"
    /\ models = <<>>
    /\ queries = <<>>
    /\ test_iterations = 0
    /\ total_queries = 0
    /\ completed_queries = 0
    /\ results = EmptyDict
    /\ iteration = 0
    /\ model_idx = 0
    /\ query_number = 0
    /\ model_results = <<>>
    /\ response = NoResponse
    /\ progress = 0
    /\ threads = <<>>
    /\ monitor_thread = 0
    /\ calls = <<>>
    /\ outfile = NoFile
    /\ writes = 0
    /\ aPc = IF prog = "analyzer" THEN "glob" ELSE "off"
    /\ json_files = <<>>
    /\ file_idx = 0
    /\ a_results = EmptyDict
    /\ grouped = EmptyDict
    /\ reports = <<>>

Sampler == \E t \in DOMAIN threads : SamplerCheck(t) \/ SamplerSample(t)

Dispatcher ==
    \/ ReadJsons
    \/ BaselineStart
    \/ BaselineStop
    \/ BaselineJoin
    \/ BaselineAverage
    \/ IterationLoop
    \/ ModelLoop
    \/ QueryLoop
    \/ StartMonitor
    \/ SendQuery
    \/ StopMonitor
    \/ JoinMonitor
    \/ AppendRecord
    \/ FinalProgress
    \/ DumpResults

Endpoint == EndpointReturn \/ EndpointRaise

Analyzer == RunAnalyzer \/ Glob \/ LoadFile \/ ProcessFile

Next == Dispatcher \/ Endpoint \/ Sampler \/ Analyzer

Spec == Init /\ [][Next]_vars

\* The threads of the collector are scheduled by the operating system: a
\* thread that can take a step eventually takes it.  The endpoint call
\* eventually returns or raises.  Nothing is assumed about when, or whether,
\* the analyzer is run.
FairSpec ==
    /\ Spec
    /\ WF_vars(Dispatcher)
    /\ WF_vars(Endpoint)
    /\ WF_vars(Sampler)


-----------------------------------------------------------------------------
(* Properties *)

\* positions at which the dispatcher reads the sample list
ReadPcs == {"baseline_avg", "append_record"}

\* positions at which the dispatcher creates a list, an Event and a thread
StartPcs == {"baseline_start", "start_monitor"}

CurrentSamples == threads[monitor_thread].samples

\* the sample list of thread t is changed by this step
SamplesChange(t) ==
    /\ t \in DOMAIN threads
    /\ t \in DOMAIN threads'
    /\ threads'[t].samples # threads[t].samples

\* the step is an append of one sample by the sampler t, inside its loop
SamplerAppends(t) ==
    /\ threads[t].pc = "measure"
    /\ threads'[t].pc = "check"
    /\ Len(threads'[t].samples) = Len(threads[t].samples) + 1
    /\ SubSeq(threads'[t].samples, 1, Len(threads[t].samples))
         = threads[t].samples
    /\ mainPc' = mainPc

\* the step is the dispatcher binding a fresh, empty list for a new thread
FreshList(t) ==
    /\ mainPc \in StartPcs
    /\ mainPc' # mainPc
    /\ threads[t].pc = "done"
    /\ threads'[t] = [pc |-> "check", stop |-> FALSE, samples |-> <<>>]

\* C1: the dispatcher reads the sample list (baseline and per request) only
\* when the sampler thread of that list has terminated; a sample list is
\* changed only by its sampler appending one sample while the dispatcher is
\* not at a read, and the dispatcher never appends to or removes from it (it
\* only binds a fresh empty list when it starts the next thread).
C1_ReadAfterJoin ==
    /\ [](mainPc \in ReadPcs => threads[monitor_thread].pc = "done")
    /\ [][\A t \in DOMAIN threads :
            SamplesChange(t) =>
               \/ SamplerAppends(t) /\ ~(mainPc \in ReadPcs /\ t = monitor_thread)
               \/ FreshList(t)]_vars

\* a per-request read of a non-empty list, after the baseline
C1_Witness ==
    /\ mainPc = "append_record"
    /\ completed_queries >= 1
    /\ Len(CurrentSamples) >= 1

\* C2: at most one sampler thread is alive in every state, and whenever the
\* dispatcher starts a sampler thread (baseline or per request) no sampler
\* thread is alive: the previous one was joined.
C2_OneSampler ==
    /\ [](Cardinality(Alive(threads)) <= 1)
    /\ [][(mainPc \in StartPcs /\ mainPc' # mainPc) => Alive(threads) = {}]_vars

\* a sampler is alive for the last request of a run of 2 x 2 x 2 requests
C2_Witness ==
    /\ mainPc = "in_call"
    /\ iteration = 2 /\ model_idx = 2 /\ query_number = 2
    /\ Cardinality(Alive(threads)) = 1
    /\ error = "none"


\* C3: once the endpoint call has raised, the dispatcher issues no further
\* request and eventually no thread of the run is executing any more.
C3_RunTerminates ==
    /\ [][error = "endpoint" => calls' = calls]_vars
    /\ (error = "endpoint") ~> (Alive(threads) = {})

\* every (iteration, model position) has its list of one record per prompt
Complete(res) ==
    /\ DictHas(res, "baseline")
    /\ \A i \in 1..test_iterations :
         /\ DictHas(res, Str(i))
         /\ \A j \in 1..Len(models) :
              /\ DictHas(DictGet(res, Str(i)), models[j])
              /\ Len(DictGet(DictGet(res, Str(i)), models[j])) = Len(queries)

\* C4: the result file is written at most once, only when every iteration x
\* model x prompt record is in the in-memory results, and what is written is
\* the whole of it; no file is written in a run whose endpoint call raised
\* or whose configuration did not load.
C4_WrittenOnceComplete ==
    /\ writes <= 1
    /\ writes = 0 => outfile = NoFile
    /\ writes = 1 => /\ mainPc = "done"
                     /\ error = "none"
                     /\ Complete(results)
                     /\ outfile = json_dump(results)
    /\ (error = "endpoint" \/ mainPc = "returned") => writes = 0

\* the file of a run of 2 iterations x 2 models x 2 prompts has been written
C4_Witness ==
    /\ writes = 1
    /\ test_iterations = 2 /\ Len(models) = 2 /\ Len(queries) = 2
    /\ completed_queries = 8

\* C5: a run whose configuration loaded and whose endpoint calls all returned
\* ends having written the results (the baseline and one key per iteration)
\* to the result file exactly once.
C5_EndsWithOneWrite ==
    (mainPc \in {"done", "raised"} /\ error # "endpoint") =>
        /\ mainPc = "done"
        /\ writes = 1
        /\ outfile = json_dump(results)
        /\ DictHas(results, "baseline")
        /\ \A i \in 1..test_iterations : DictHas(results, Str(i))

\* the k-th request in lexicographic order: iteration, then model, then prompt
LexCall(k) ==
    LET M == Len(models)
        Q == Len(queries)
        i == ((k - 1) \div (M * Q)) + 1
        j == (((k - 1) \div Q) % M) + 1
        q == ((k - 1) % Q) + 1
    IN  [iteration |-> i, model_idx |-> j, query_number |-> q,
         model |-> models[j], prompt |-> queries[q]]

\* positions at which a request is outstanding or its record not yet appended
BusyPcs == {"in_call", "stop_monitor", "join_monitor", "append_record"}

\* C6: the requests reach the endpoint in lexicographic order (iteration,
\* model, prompt) with no combination skipped or repeated; a request is
\* issued only when the record of every earlier request has been appended;
\* when the loops are over, results[str(i)][model] holds exactly one record
\* per prompt, in prompt order, for every iteration i in 1..N and every model.
C6_SequentialLexOrder ==
    /\ \A k \in 1..Len(calls) : calls[k] = LexCall(k)
    /\ Len(calls) <= Len(models) * Len(queries) * test_iterations
       \/ calls = <<>>
    /\ completed_queries =
         Len(calls) - (IF mainPc \in BusyPcs \/ error = "endpoint" THEN 1 ELSE 0)
    /\ mainPc \in {"final_progress", "dump", "done"} =>
         /\ Len(calls) = Len(models) * Len(queries) * test_iterations
            \/ test_iterations < 0
         /\ \A i \in 1..test_iterations : \A j \in 1..Len(models) :
              LET recs == DictGet(DictGet(results, Str(i)), models[j])
              IN  /\ Len(recs) = Len(queries)
                  /\ \A q \in 1..Len(queries) :
                       /\ recs[q].query = queries[q]
                       /\ recs[q].response = Reply(models[j], queries[q]).response

\* the run of 2 iterations x 2 different models x 2 prompts is over
C6_Witness ==
    /\ mainPc = "done"
    /\ test_iterations = 2 /\ models = <<"m1", "m2">> /\ Len(queries) = 2
    /\ Len(calls) = 8


Zero == [cpu |-> F(0), mem |-> F(0), gpu |-> F(0)]

\* what a step may do to the sampler t once its signal is set: at the top of
\* the loop it can only terminate; inside the loop it can only finish the
\* sample in progress; terminated, it does nothing
AfterSignal(t) ==
    /\ threads[t].pc = "check" =>
          /\ threads'[t].pc \in {"check", "done"}
          /\ threads'[t].samples = threads[t].samples
    /\ threads[t].pc = "measure" =>
          \/ threads'[t] = threads[t]
          \/ /\ threads'[t].pc = "check"
             /\ Len(threads'[t].samples) = Len(threads[t].samples) + 1
    /\ threads[t].pc = "done" => threads'[t] = threads[t]

\* the averages the dispatcher stores by this step are 0 for an empty list
EmptyGivesZero ==
    /\ (mainPc = "append_record" /\ mainPc' # mainPc /\ CurrentSamples = <<>>) =>
          LET rec == model_results'[Len(model_results')]
          IN  rec.avg_cpu = F(0) /\ rec.avg_mem = F(0) /\ rec.avg_gpu = F(0)
    /\ (mainPc = "baseline_avg" /\ mainPc' # mainPc /\ CurrentSamples = <<>>) =>
          DictGet(results', "baseline") = Zero

JoinPcs == {"baseline_join", "join_monitor"}

\* C7: the sampler tests the signal only at the top of its loop: once the
\* signal is set it appends at most the one sample whose interval was in
\* progress and then terminates, so that the join of the caller returns; a
\* sampler whose signal was set before its first test leaves the list empty,
\* and the three averages of an empty list are 0.
C7_SamplerStops ==
    /\ [][\A t \in DOMAIN threads :
            (t \in DOMAIN threads' /\ threads[t].stop /\ threads'[t].stop)
               => AfterSignal(t)]_vars
    /\ [][EmptyGivesZero]_vars
    /\ (mainPc \in JoinPcs) ~> (mainPc \in ReadPcs)

\* one model has a record of an empty sample list (averages 0) followed by a
\* record of a sampled request
C7_Witness ==
    /\ mainPc = "query_loop"
    /\ Len(model_results) = 2
    /\ model_results[1].avg_cpu = F(0) /\ model_results[1].avg_gpu = F(0)
    /\ model_results[2].avg_cpu = F(40) /\ model_results[2].avg_gpu = F(45)


\* the analyzer has just grouped and reported the file held in a_results
Processed == aPc \in {"load", "done"} /\ a_results # EmptyDict

\* the records of model m in res: the lists of m under the keys other than
\* "baseline", in key order
RECURSIVE ConcatFor(_, _)
ConcatFor(res, m) ==
    IF res = <<>>
    THEN <<>>
    ELSE (IF Head(res)[1] # "baseline" /\ DictHas(Head(res)[2], m)
          THEN DictGet(Head(res)[2], m)
          ELSE <<>>)
         \o ConcatFor(Tail(res), m)

\* the model names under the keys other than "baseline"
ModelsIn(res) ==
    UNION { {res[i][2][j][1] : j \in 1..Len(res[i][2])} :
              i \in {k \in 1..Len(res) : res[k][1] # "baseline"} }

GroupedKeys == {grouped[i][1] : i \in 1..Len(grouped)}

\* C8: group_by_model gives, for each model of the iteration entries and for
\* nothing else (no entry comes from "baseline"), the concatenation of the
\* model's record lists in the order of the iteration keys; for the file
\* written by the collector and reloaded, that is the model's records of
\* iteration 1, ..., N, each in prompt order.
C8_GroupedConcat ==
    Processed =>
        /\ GroupedKeys = ModelsIn(a_results)
        /\ Cardinality(GroupedKeys) = Len(grouped)
        /\ \A i \in 1..Len(grouped) :
              grouped[i][2] = ConcatFor(a_results, grouped[i][1])
        /\ prog = "tester" =>
              \A j \in 1..Len(models) :
                 LET recs == IF DictHas(grouped, models[j])
                             THEN DictGet(grouped, models[j])
                             ELSE <<>>
                     Q == Len(queries)
                 IN  /\ DictHas(grouped, models[j]) <=> test_iterations >= 1
                     /\ test_iterations >= 1 => Len(recs) = test_iterations * Q
                     /\ \A i \in 1..test_iterations : \A q \in 1..Q :
                          /\ recs[(i - 1) * Q + q]
                               = DictGet(DictGet(results, Str(i)), models[j])[q]
                          /\ recs[(i - 1) * Q + q].query = queries[q]

\* the file written by a run of 2 iterations x 2 models x 2 prompts has been
\* reloaded and grouped
C8_Witness ==
    /\ prog = "tester"
    /\ Processed
    /\ test_iterations = 2 /\ models = <<"m1", "m2">> /\ Len(queries) = 2
    /\ Len(DictGet(grouped, "m2")) = 4

\* the records whose done key is present and false
Failed(records) ==
    {k \in 1..Len(records) :
        "done" \in DOMAIN records[k] /\ records[k].done = FALSE}

StatsOk(records, stats) ==
    LET fr == stats.failure_rate
    IN  /\ stats.count = Len(records)
        /\ fr[2] > 0
        /\ fr[1] * Len(records) = 100 * Cardinality(Failed(records)) * fr[2]
        /\ FLe(F(0), fr) /\ FLe(fr, F(100))
        /\ Failed(records) = {} => fr = F(0)
        /\ records = <<>> => fr = F(0)

\* C9: for the records of every model, count is the number of records
\* whatever metric keys they hold, failure_rate is 100 * (records with done
\* present and false) / count, lies in [0, 100], and is 0 when no record has
\* done false and when there is no record.
C9_CountAndFailureRate ==
    Processed =>
        LET stats == reports[Len(reports)].stats
        IN  /\ Len(stats) = Len(grouped)
            /\ \A i \in 1..Len(grouped) :
                  /\ stats[i][1] = grouped[i][1]
                  /\ StatsOk(grouped[i][2], stats[i][2])

\* a model with three records: one done, one failed, one without done; two
\* of them without avg_cpu
C9_Witness ==
    /\ Processed
    /\ DictHas(grouped, "m1")
    /\ DictGet(grouped, "m1") = <<RecA, RecB, RecC>>
    /\ DictGet(reports[Len(reports)].stats, "m1").failure_rate = <<100, 3>>
    /\ DictGet(reports[Len(reports)].stats, "m1").count = 3

\* the file has a non-empty "results" object
HasResults(file) ==
    /\ file.kind = "object"
    /\ DictHas(file.pairs, "results")
    /\ DictGet(file.pairs, "results") # EmptyDict

Bad(file) == file.kind \in {"missing", "malformed"}

\* the files the loop has gone through
Visited ==
    CASE aPc \in {"load", "process"} -> file_idx - 1
      [] aPc = "done" -> Len(json_files)
      [] OTHER -> 0

\* C10: no exception leaves load_results or the loop; a missing or malformed
\* file gives the empty result set, is reported as having no results and gets
\* no statistics; every file visited has its one report, a table for each
\* file with results, wherever the bad files are; the loop ends having
\* visited every discovered file.
C10_BadFilesSkipped ==
    /\ aPc # "raised"
    /\ Len(reports) = Visited
    /\ \A i \in 1..Len(json_files) :
          Bad(json_files[i]) =>
             load_results(json_files[i]) = [exc |-> FALSE, ret |-> EmptyDict]
    /\ \A i \in 1..Len(reports) :
          /\ ~HasResults(json_files[i]) =>
                reports[i] = [kind |-> "no results", stats |-> <<>>]
          /\ HasResults(json_files[i]) =>
                /\ reports[i].kind = "table"
                /\ {reports[i].stats[j][1] : j \in 1..Len(reports[i].stats)}
                     = ModelsIn(DictGet(json_files[i].pairs, "results"))

\* a malformed file came first and the file after it got its table
C10_Witness ==
    /\ aPc = "done"
    /\ Len(json_files) = 2
    /\ json_files[1].kind = "malformed"
    /\ reports[1].kind = "no results"
    /\ reports[2].kind = "table"
    /\ Len(reports[2].stats) = 2

=============================================================================
